---- MODULE Spec2Model ----
(***************************************************************************)
(* A model of @vercel/slack-bolt's receiver (src/src/index.ts, lines       *)
(* 263-742): the request handler of VercelReceiver, its per-request        *)
(* acknowledgment gate (isAcknowledged, the deadline timer and the         *)
(* response promise of handleSlackEvent) and the initialization cache of   *)
(* createHandler.                                                          *)
(*                                                                         *)
(* JavaScript runs one continuation at a time: every action below is the   *)
(* code that runs between two suspension points (an await, a timer         *)
(* callback, a call by the engine), and actions of different requests      *)
(* interleave only at those points.                                        *)
(***************************************************************************)
EXTENDS Integers, Sequences, FiniteSets, TLC

\* Number of requests one function instance serves in a behaviour.
MaxReq == 2

\* src/src/index.ts:335
ACK_TIMEOUT_MS == 3001

Reqs == 1..MaxReq

\* `undefined` for a numeric option.
Undefined == 0
\* `null` for createHandler's initPromise (an index into attempts otherwise).
Null == 0

VARIABLES
    ackTimeoutMs,     \* VercelReceiver.ackTimeoutMs
    signatureVerification, \* VercelReceiver.signatureVerification
    customPropertiesExtractor, \* whether VercelReceiver.customPropertiesExtractor is set
    app,              \* VercelReceiver.app ("none" while unbound)
    lastInit,         \* history: the argument of the latest init() call
    initPromise,      \* createHandler's closure variable
    attempts,         \* the promises app.init() has returned, in call order
    pc,               \* where each request's handler is suspended
    awaits,           \* the init attempt a request is suspended on, or the
                      \* one whose rejection it was answered with
    direct,           \* history: a request went to the receiver's handler
                      \* without createHandler
    isAcknowledged,   \* handleSlackEvent's flag
    timer,            \* the setTimeout of handleSlackEvent
    responsePromise,  \* handleSlackEvent's responsePromise
    settleCalls,      \* history: calls of responseResolver / responseRejecter
    gate,             \* history: who set isAcknowledged
    pe,               \* the app.processEvent(event) call of the request
    event,            \* the ReceiverEvent handed to app.processEvent
    extractorCalls,   \* history: calls of the custom properties extractor
    engine,           \* history: the app whose processEvent was called
    waitUntilPromise, \* the promise handed to waitUntil
    ackResult,        \* outcome of the most recent ack() call on the event
    response,         \* the Response the handler returned
    textCalls,        \* history: calls of req.text()
    handled           \* what a direct call of handleError returned

cfgVars  == <<ackTimeoutMs, signatureVerification, customPropertiesExtractor>>
initVars == <<initPromise, attempts, awaits, direct>>
gateVars == <<isAcknowledged, timer, responsePromise, settleCalls, gate>>
vars == <<ackTimeoutMs, signatureVerification, customPropertiesExtractor, app,
          lastInit, initPromise, attempts, pc, awaits, direct, isAcknowledged, timer,
          responsePromise, settleCalls, gate, pe, event, extractorCalls, engine,
          waitUntilPromise, ackResult, response, textCalls, handled>>

(***************************************************************************)
(* Values                                                                  *)
(***************************************************************************)

\* An HTTP response: status, the shape of its body, and the body's content.
\* For a JSON error body {error, type}, v is the error field.
Resp(status, t, v, type) ==
    [status |-> status, t |-> t, v |-> v, type |-> type]

NoResponse == Resp(0, "none", "", "")

\* A thrown Error object: its constructor's name, its message, whether it is
\* an instance of VercelReceiverError, and then its statusCode.
Err(cls, message, vre, statusCode) ==
    [cls |-> cls, message |-> message, vre |-> vre, statusCode |-> statusCode]

NoError == Err("", "", FALSE, 0)

VercelReceiverError(message, statusCode) ==
    Err("VercelReceiverError", message, TRUE, statusCode)

RequestParsingError(message) ==
    Err("RequestParsingError", message, TRUE, 400)

\* Mutant of ReceiverAuthenticityError: verifyRequest throws an error named
\* SignatureVerificationError.
ReceiverAuthenticityError_AsSignatureVerificationError(message) ==
    Err("SignatureVerificationError", message, FALSE, 0)

ReceiverAuthenticityError(message) ==
    Err("ReceiverAuthenticityError", message, FALSE, 0)

GenericError(message) == Err("Error", message, FALSE, 0)

TypeError(message) == Err("TypeError", message, FALSE, 0)

\* A thrown value that is not an object (`throw "..."`).
ThrownString(value) == Err("string", value, FALSE, 0)

getStatusCode(error) ==
    IF error.vre THEN error.statusCode
    ELSE CASE error.cls = "ReceiverAuthenticityError" -> 401
           [] error.cls = "ReceiverMultipleAckError" -> 500
           [] error.cls = "RequestParsingError" -> 400
           [] error.cls = "SignatureVerificationError" -> 400
           [] OTHER -> 500

\* Mutant of getErrorMessage: the thrown error's message is never sent.
getErrorMessage_AlwaysGeneric(error) == "Internal server error"

getErrorMessage(error) ==
    IF error.cls = "string" THEN "Internal server error" ELSE error.message

getErrorType(error) ==
    IF error.cls \in {"Error", "string"} THEN "UnexpectedError" ELSE error.cls

handleError(error) ==
    Resp(getStatusCode(error), "error", getErrorMessage(error),
         getErrorType(error))

(***************************************************************************)
(* Promises: settled at most once; a later resolve or reject is ignored.   *)
(***************************************************************************)

NoPromise == [state |-> "none", resp |-> NoResponse, err |-> NoError]

PendingPromise == [state |-> "pending", resp |-> NoResponse, err |-> NoError]

Resolve(p, resp) ==
    IF p.state = "pending"
    THEN [state |-> "resolved", resp |-> resp, err |-> NoError]
    ELSE p

Reject(p, err) ==
    IF p.state = "pending"
    THEN [state |-> "rejected", resp |-> NoResponse, err |-> err]
    ELSE p

(***************************************************************************)
(* Inputs                                                                  *)
(***************************************************************************)

\* What the engine passes to ack(): nothing, a string, an object, or an
\* object JSON.stringify throws on (a circular structure).
AllAckValues ==
    { [t |-> "undefined", v |-> ""],
      [t |-> "string",    v |-> "First"],
      [t |-> "object",    v |-> "ok"],
      [t |-> "circular",  v |-> "self"] }

\* The values the engine acknowledges with in Spec: one for each way ackFn
\* can end (an empty body, a serialized body, a failed serialization). A
\* string takes the path of `undefined` with another body.
AckValues == {v \in AllAckValues : v.t # "string"}

\* JSON.stringify of the object {<key>: true}.
JSONStringify(key) == "{\"" \o key \o "\":true}"

\* The clock, in seconds, when a request is verified: Math.floor(Date.now() / 1000).
Now == 1000

\* The receiver's signing secret.
signingSecret == "secret"

\* headers.get(name) of a header the request does not carry.
NoTimestamp == [present |-> FALSE, v |-> 0]
NoSignature == [present |-> FALSE, v |-> <<>>]

\* A header the request carries, with its value.
Header(v) == [present |-> TRUE, v |-> v]

\* "v0=" followed by the hex HMAC-SHA256 of "v0:<timestamp>:<body>" under
\* `secret`: two signatures are equal exactly when they were computed from the
\* same secret, timestamp and body.
Sign(secret, timestamp, body) == <<"v0", secret, timestamp, body>>

\* The check of a request's timestamp and signature. The handler calls
\* @slack/bolt's verifySlackRequest for it, which the repository does not
\* contain; the check is modelled as the receiver's own implementation of it
\* (src/src/index.ts:167-198): TRUE when the request is accepted.
verifySlackRequest(timestamp, signature, body) ==
    IF (IF Now - timestamp >= 0 THEN Now - timestamp ELSE timestamp - Now) > 300
    THEN FALSE
    ELSE signature = Sign(signingSecret, timestamp, body)

SLACK_TIMESTAMP_HEADER == "x-slack-request-timestamp"
SLACK_SIGNATURE_HEADER == "x-slack-signature"

\* ERROR_MESSAGES.MISSING_REQUIRED_HEADER
MISSING_REQUIRED_HEADER(header) == "Missing required header: " \o header

\* Mutant of verifyRequest: the two headers are tested together and reported
\* with one message.
verifyRequest_CombinedCheck(req) ==
    IF ~req.timestamp.present \/ ~req.signature.present
    THEN ReceiverAuthenticityError("Missing required signature headers")
    ELSE IF ~verifySlackRequest(req.timestamp.v, req.signature.v, req.rawBody)
    THEN ReceiverAuthenticityError("Failed to verify request signature")
    ELSE NoError

\* Mutant of verifyRequest: the catch block around the signature check logs
\* the failure and does not rethrow it.
verifyRequest_Swallows(req) ==
    IF ~req.signature.present
    THEN ReceiverAuthenticityError(MISSING_REQUIRED_HEADER(SLACK_SIGNATURE_HEADER))
    ELSE IF ~req.timestamp.present
    THEN ReceiverAuthenticityError(MISSING_REQUIRED_HEADER(SLACK_TIMESTAMP_HEADER))
    ELSE NoError

\* verifyRequest: the error it throws, or NoError when it returns. The
\* message of a failed check is the one the check threw, which is not
\* modelled: it stands as "Failed to verify request signature".
verifyRequest(req) ==
    IF ~req.signature.present
    THEN ReceiverAuthenticityError(MISSING_REQUIRED_HEADER(SLACK_SIGNATURE_HEADER))
    ELSE IF ~req.timestamp.present
    THEN ReceiverAuthenticityError(MISSING_REQUIRED_HEADER(SLACK_TIMESTAMP_HEADER))
    ELSE IF ~verifySlackRequest(req.timestamp.v, req.signature.v, req.rawBody)
    THEN ReceiverAuthenticityError("Failed to verify request signature")
    ELSE NoError

(***************************************************************************)
(* Request bodies                                                          *)
(***************************************************************************)

\* The value of a property an object does not have.
NoValue == "undefined"

\* What JSON.parse returns: an object (its properties as a function from
\* keys to values), null, a number, a string, or an array.
Object(o) == [t |-> "object", o |-> o]

JSNull == [t |-> "null", o |-> <<>>]

JSNumber == [t |-> "number", o |-> <<>>]

JSString == [t |-> "string", o |-> <<>>]

JSArray == [t |-> "array", o |-> <<>>]

\* `value[key]` on a value that is not null.
Get(value, key) ==
    IF value.t = "object" /\ key \in DOMAIN value.o THEN value.o[key] ELSE NoValue

\* The content-type header values: the two the code names, the form type
\* with a parameter, another type, and none (headers.get returns null).
FormContentType == "application/x-www-form-urlencoded"

FormCharsetContentType == "application/x-www-form-urlencoded; charset=utf-8"

JsonContentType == "application/json"

TextContentType == "text/plain"

NoContentType == "null"

ContentTypes == {FormContentType, FormCharsetContentType, JsonContentType, TextContentType, NoContentType}

\* JSON texts.
EventText == "{\"type\":\"event_callback\"}"

ChallengeText(challenge) == "{\"type\":\"url_verification\",\"challenge\":\"" \o challenge \o "\"}"

BlockActionsText == "{\"type\":\"block_actions\",\"token\":\"t0\"}"

MalformedText == "{\"type\":\"event_callback\""

\* Form-encoded texts: an interactive payload with a sibling field, a slash
\* command, a payload field that is not JSON, and a flat challenge.
PayloadFormText == "payload=%7B%22type%22%3A%22block_actions%22%2C%22token%22%3A%22t0%22%7D&token=t1"

CommandFormText == "command=%2Fdeploy&text=now&text=later"

BadPayloadFormText == "payload=invalid-json%7B"

ChallengeFormText == "type=url_verification&challenge=c1"

\* JSON.parse on the texts above: the parsed value, or the SyntaxError's
\* message. Every text that is none of the JSON texts is not JSON.
JSONValue(value) == [ok |-> TRUE, value |-> value, message |-> ""]

JSONSyntaxError(message) == [ok |-> FALSE, value |-> JSNull, message |-> message]

JSONParse(text) ==
    CASE text = EventText           -> JSONValue(Object("type" :> "event_callback"))
      [] text = ChallengeText("c1") -> JSONValue(Object("type" :> "url_verification" @@ "challenge" :> "c1"))
      [] text = ChallengeText("c2") -> JSONValue(Object("type" :> "url_verification" @@ "challenge" :> "c2"))
      [] text = BlockActionsText    -> JSONValue(Object("type" :> "block_actions" @@ "token" :> "t0"))
      [] text = "null"              -> JSONValue(JSNull)
      [] text = "42"                -> JSONValue(JSNumber)
      [] text = "\"text\""          -> JSONValue(JSString)
      [] text = "[]"                -> JSONValue(JSArray)
      [] text = ""                  -> JSONSyntaxError("Unexpected end of JSON input")
      [] text = MalformedText       -> JSONSyntaxError("Unexpected end of JSON input")
      [] OTHER                      -> JSONSyntaxError("Unexpected token")

\* `new URLSearchParams(text).entries()`: the decoded pairs in order. A text
\* with no `=` is one name with an empty value, the empty text is no pair.
URLSearchParams(text) ==
    CASE text = PayloadFormText    -> << <<"payload", BlockActionsText>>, <<"token", "t1">> >>
      [] text = CommandFormText    -> << <<"command", "/deploy">>, <<"text", "now">>, <<"text", "later">> >>
      [] text = BadPayloadFormText -> << <<"payload", "invalid-json{">> >>
      [] text = ChallengeFormText  -> << <<"type", "url_verification">>, <<"challenge", "c1">> >>
      [] text = ""                 -> << >>
      [] OTHER                     -> << <<text, "">> >>

\* `for (const [key, value] of params.entries()) { parsedBody[key] = value; }`
\* A later pair overwrites an earlier one of the same key.
RECURSIVE AssignEntries(_, _)
AssignEntries(parsedBody, entries) ==
    IF entries = << >>
    THEN parsedBody
    ELSE AssignEntries((Head(entries)[1] :> Head(entries)[2]) @@ parsedBody, Tail(entries))

\* What parseRequestBody returns, or the error it throws.
ParseReturns(value) == [ok |-> TRUE, value |-> value, err |-> NoError]

\* The catch block: whatever the decoding threw becomes a
\* RequestParsingError naming the content type.
ParseFailure(contentType, message) ==
    [ ok    |-> FALSE,
      value |-> JSNull,
      err   |-> RequestParsingError("Failed to parse body as JSON data for content-type: " \o contentType \o ". Error: " \o message) ]

\* JSON.parse inside the try block.
ParseJSON(contentType, text) ==
    IF JSONParse(text).ok
    THEN ParseReturns(JSONParse(text).value)
    ELSE ParseFailure(contentType, JSONParse(text).message)

\* A header that is not sent: headers.get returns null.
NoHeader == [present |-> FALSE, v |-> ""]

\* What the configured custom properties extractor makes of a request: one
\* of two property maps, or it throws an Error, or it throws a string.
ExtractorResults == {"p1", "p2", "throws", "throwsString"}

\* `{}`
EmptyProperties == "{}"

\* One inbound request: whether req.text() resolves, its content-type
\* header and raw body, its x-slack-request-timestamp, x-slack-signature,
\* x-slack-retry-num and x-slack-retry-reason headers, what the custom
\* properties extractor makes of it, and whether app.processEvent returns a
\* promise for it or throws synchronously.
FullRequest(readOk, contentType, rawBody, timestamp, signature, retryNum, retryReason, extractor, engineThrows) ==
    [ readOk       |-> readOk,
      contentType  |-> contentType,
      rawBody      |-> rawBody,
      timestamp    |-> timestamp,
      signature    |-> signature,
      retryNum     |-> retryNum,
      retryReason  |-> retryReason,
      extractor    |-> extractor,
      engineThrows |-> engineThrows ]

\* A JSON request sent now for the first time, signed with the receiver's
\* secret (authOk) or with another one; its body is the malformed text, the
\* challenge or the event.
Request(readOk, authOk, parseOk, type, extractorThrows, engineThrows) ==
    LET rawBody == IF ~parseOk THEN MalformedText
                   ELSE IF type = "url_verification" THEN ChallengeText("c1")
                   ELSE EventText
    IN  FullRequest(readOk, JsonContentType, rawBody, Header(Now),
                    Header(Sign(IF authOk THEN signingSecret ELSE "forged", Now, rawBody)),
                    NoHeader, NoHeader,
                    IF extractorThrows THEN "throws" ELSE "p1", engineThrows)

\* One request for each way through the handler (a step that fails hides
\* what the later steps would have found).
Requests ==
    { Request(FALSE, TRUE,  TRUE,  "event_callback",   FALSE, FALSE),
      Request(TRUE,  FALSE, TRUE,  "event_callback",   FALSE, FALSE),
      Request(TRUE,  TRUE,  FALSE, "event_callback",   FALSE, FALSE),
      Request(TRUE,  TRUE,  TRUE,  "url_verification", FALSE, FALSE),
      Request(TRUE,  TRUE,  TRUE,  "event_callback",   TRUE,  FALSE),
      Request(TRUE,  TRUE,  TRUE,  "event_callback",   FALSE, TRUE),
      Request(TRUE,  TRUE,  TRUE,  "event_callback",   FALSE, FALSE) }

\* Mutant of parseRequestBody: the fields beside `payload` are merged into
\* the parsed payload.
parseRequestBody_MergesSiblings(req) ==
    LET parsedBody == AssignEntries(<< >>, URLSearchParams(req.rawBody))
        payload    == ParseJSON(req.contentType, parsedBody["payload"])
    IN  IF req.contentType = FormContentType
        THEN IF "payload" \in DOMAIN parsedBody
             THEN IF payload.ok /\ payload.value.t = "object"
                  THEN ParseReturns(Object(payload.value.o @@ parsedBody))
                  ELSE payload
             ELSE ParseReturns(Object(parsedBody))
        ELSE ParseJSON(req.contentType, req.rawBody)

\* Mutant of parseRequestBody: every body goes through the form decoder
\* first, whatever its content type.
parseRequestBody_FormFirst(req) ==
    LET parsedBody == AssignEntries(<< >>, URLSearchParams(req.rawBody))
    IN  IF "payload" \in DOMAIN parsedBody
        THEN ParseJSON(req.contentType, parsedBody["payload"])
        ELSE ParseReturns(Object(parsedBody))

\* Mutant of parseRequestBody: no catch block, the decoder's own error is
\* thrown.
parseRequestBody_NoCatch(req) ==
    LET parsedBody == AssignEntries(<< >>, URLSearchParams(req.rawBody))
        text       == IF req.contentType = FormContentType THEN parsedBody["payload"] ELSE req.rawBody
    IN  IF req.contentType = FormContentType /\ "payload" \notin DOMAIN parsedBody
        THEN ParseReturns(Object(parsedBody))
        ELSE IF JSONParse(text).ok
        THEN ParseReturns(JSONParse(text).value)
        ELSE [ok |-> FALSE, value |-> JSNull, err |-> Err("SyntaxError", JSONParse(text).message, FALSE, 0)]

\* parseRequestBody: the value it returns, or the error it throws. The form
\* branch is taken when the content type is exactly the form type; every
\* other content type, and none, is parsed as JSON.
parseRequestBody(req) ==
    LET parsedBody == AssignEntries(<< >>, URLSearchParams(req.rawBody))
    IN  IF req.contentType = FormContentType
        THEN IF "payload" \in DOMAIN parsedBody
             THEN ParseJSON(req.contentType, parsedBody["payload"])
             ELSE ParseReturns(Object(parsedBody))
        ELSE ParseJSON(req.contentType, req.rawBody)

\* Number(text) on the header values: a number, or NaN.
Num(n) == [nan |-> FALSE, n |-> n]

NaN == [nan |-> TRUE, n |-> 0]

Number(text) ==
    CASE text = "0"  -> Num(0)
      [] text = "1"  -> Num(1)
      [] text = "3"  -> Num(3)
      [] text = "-1" -> Num(-1)
      [] OTHER       -> NaN

\* Mutant of HeaderOr: the header is never read.
HeaderOr_AlwaysDefault(header, default) == default

\* `headers.get(name) || default`: null and the empty string are falsy.
HeaderOr(header, default) ==
    IF header.present /\ header.v # "" THEN header.v ELSE default

\* `this.customPropertiesExtractor ? this.customPropertiesExtractor(request) : {}`
\* when the extractor returns.
ExtractCustomProperties(req) ==
    IF customPropertiesExtractor THEN req.extractor ELSE EmptyProperties

\* The call of the extractor throws.
ExtractorThrows(req) ==
    customPropertiesExtractor /\ req.extractor \in {"throws", "throwsString"}

\* What the extractor throws.
ExtractorError(req) ==
    IF req.extractor = "throws"
    THEN GenericError("Extractor failed")
    ELSE ThrownString("extractor failed")

\* The ReceiverEvent createSlackReceiverEvent builds.
createSlackReceiverEvent(req) ==
    [ body             |-> parseRequestBody(req).value,
      retryNum         |-> Number(HeaderOr(req.retryNum, "0")),
      retryReason      |-> HeaderOr(req.retryReason, ""),
      customProperties |-> ExtractCustomProperties(req) ]

NoEvent == [body |-> [t |-> "none", o |-> << >>], retryNum |-> Num(0), retryReason |-> "", customProperties |-> ""]

(***************************************************************************)
(* Construction                                                            *)
(***************************************************************************)

\* The constructor's default parameter: ackTimeoutMs = ACK_TIMEOUT_MS.
Constructor(opts) ==
    IF opts.ackTimeoutMs = Undefined THEN ACK_TIMEOUT_MS ELSE opts.ackTimeoutMs

\* `new VercelReceiver()`: no option is given.
DefaultOptions == [ackTimeoutMs |-> Undefined]

Init ==
    /\ ackTimeoutMs = Constructor(DefaultOptions)
    /\ signatureVerification = TRUE
    /\ customPropertiesExtractor = TRUE
    /\ app = "none"
    /\ lastInit = "none"
    /\ initPromise = Null
    /\ attempts = <<>>
    /\ pc = [r \in Reqs |-> "idle"]
    /\ awaits = [r \in Reqs |-> Null]
    /\ direct = FALSE
    /\ isAcknowledged = [r \in Reqs |-> FALSE]
    /\ timer = [r \in Reqs |-> [state |-> "none", delay |-> 0]]
    /\ responsePromise = [r \in Reqs |-> NoPromise]
    /\ settleCalls = [r \in Reqs |-> 0]
    /\ gate = [r \in Reqs |-> "Unarmed"]
    /\ pe = [r \in Reqs |-> "none"]
    /\ event = [r \in Reqs |-> NoEvent]
    /\ extractorCalls = [r \in Reqs |-> 0]
    /\ engine = [r \in Reqs |-> "none"]
    /\ waitUntilPromise = [r \in Reqs |-> "none"]
    /\ ackResult = [r \in Reqs |-> "none"]
    /\ response = [r \in Reqs |-> NoResponse]
    /\ textCalls = [r \in Reqs |-> 0]
    /\ handled = NoResponse

\* Requests are numbered in the order they arrive.
Arrives(r) ==
    /\ pc[r] = "idle"
    /\ \A q \in Reqs : q < r => pc[q] # "idle"

(***************************************************************************)
(* VercelReceiver.init                                                     *)
(***************************************************************************)

\* The engines init() is called with.
Apps == {"app", "app2"}

\* Mutant of ReceiverInit: the first engine bound stays bound.
ReceiverInit_FirstWins(a) ==
    /\ app' = IF app = "none" THEN a ELSE app
    /\ lastInit' = a
    /\ UNCHANGED <<cfgVars, handled, textCalls, initVars, pc, gateVars, pe, event, extractorCalls, engine, waitUntilPromise, ackResult, response>>

\* `this.app = app;`
ReceiverInit(a) ==
    /\ app' = a
    /\ lastInit' = a
    /\ UNCHANGED <<cfgVars, handled, textCalls, initVars, pc, gateVars, pe, event, extractorCalls, engine, waitUntilPromise, ackResult, response>>

(***************************************************************************)
(* createHandler                                                           *)
(***************************************************************************)

\* Mutant of NeedsInit: app.init() is called on every request.
NeedsInit_Always == TRUE

\* Mutant of NeedsInit: the cached promise is reused only once it resolved.
NeedsInit_UnlessResolved ==
    initPromise = Null \/ attempts[initPromise] # "resolved"

\* `if (!initPromise)`
NeedsInit == initPromise = Null

\* The handler up to `await initPromise`: the first request to get here calls
\* app.init() and caches the promise; every request awaits the cached promise.
CreateHandlerEnter(r) ==
    /\ Arrives(r)
    /\ IF NeedsInit
       THEN /\ attempts' = Append(attempts, "pending")
            /\ initPromise' = Len(attempts) + 1
       ELSE UNCHANGED <<attempts, initPromise>>
    /\ awaits' = [awaits EXCEPT ![r] = initPromise']
    /\ pc' = [pc EXCEPT ![r] = "awaitInit"]
    /\ UNCHANGED <<cfgVars, handled, textCalls, app, lastInit, direct, gateVars, pe, event, extractorCalls, engine, waitUntilPromise, ackResult, response>>

\* The engine settles one app.init() call.
InitSettles(i, outcome) ==
    /\ i \in 1..Len(attempts)
    /\ attempts[i] = "pending"
    /\ attempts' = [attempts EXCEPT ![i] = outcome]
    /\ UNCHANGED <<cfgVars, handled, textCalls, app, lastInit, initPromise, awaits, direct, pc, gateVars,
                   pe, event, extractorCalls, engine, waitUntilPromise, ackResult, response>>

\* Mutant of HandlerErrorResponse: the catch block answers through the
\* receiver's handleError.
HandlerErrorResponse_ViaHandleError == handleError(GenericError("init failed"))

\* The fixed response of createHandler's catch block.
HandlerErrorResponse == Resp(500, "error", "Internal Server Error", "HandlerError")

\* Mutant of InitResolved: the handler goes on whatever became of the
\* attempt.
InitResolved_Unchecked(r) == TRUE

\* `await initPromise` does not throw.
InitResolved(r) == attempts[awaits[r]] = "resolved"

\* The handler after `await initPromise`: receiver.init(app) and
\* `await receiver.start()`, or the catch block when the attempt rejected.
CreateHandlerResume(r) ==
    /\ pc[r] = "awaitInit"
    /\ attempts[awaits[r]] # "pending"
    /\ IF InitResolved(r)
       THEN /\ app' = "app"
            /\ lastInit' = "app"
            /\ pc' = [pc EXCEPT ![r] = "awaitStart"]
            /\ awaits' = [awaits EXCEPT ![r] = Null]
            /\ UNCHANGED response
       ELSE /\ response' = [response EXCEPT ![r] = HandlerErrorResponse]
            /\ pc' = [pc EXCEPT ![r] = "done"]
            /\ UNCHANGED <<app, lastInit, awaits>>
    /\ UNCHANGED <<cfgVars, handled, textCalls, initPromise, attempts, direct, gateVars, pe, event, extractorCalls, engine, waitUntilPromise,
                   ackResult>>

\* Mutant of ReadBody: the body is read a second time (as JSON, for the
\* parser).
ReadBody_Twice(r) ==
    /\ textCalls' = [textCalls EXCEPT ![r] = @ + 2]
    /\ pc' = [pc EXCEPT ![r] = "readBody"]

\* `const rawBody = await req.text();`: the one read of the request body.
ReadBody(r) ==
    /\ textCalls' = [textCalls EXCEPT ![r] = @ + 1]
    /\ pc' = [pc EXCEPT ![r] = "readBody"]

\* receiver.start() has resolved: `return handler(req)` runs the receiver's
\* handler up to `await req.text()`.
CreateHandlerCallsHandler(r) ==
    /\ pc[r] = "awaitStart"
    /\ ReadBody(r)
    /\ UNCHANGED <<cfgVars, handled, app, lastInit, initVars, gateVars, pe, event, extractorCalls, engine, waitUntilPromise, ackResult, response>>

(***************************************************************************)
(* VercelReceiver.toHandler and handleSlackEvent                           *)
(***************************************************************************)

\* A request given directly to a handler obtained from start() or toHandler().
ReceiverEnter(r) ==
    /\ Arrives(r)
    /\ ReadBody(r)
    /\ direct' = TRUE
    /\ UNCHANGED <<cfgVars, handled, app, lastInit, initPromise, attempts, awaits, gateVars, pe, event, extractorCalls, engine, waitUntilPromise,
                   ackResult, response>>

\* Mutant of TimeoutError: the status code is left to the constructor's
\* default.
TimeoutError_DefaultStatus == VercelReceiverError("Request timeout", 500)

\* The error the deadline rejects the response promise with.
TimeoutError == VercelReceiverError("Request timeout", 408)

\* The handler returns `resp` without awaiting anything further.
Returns(r, resp) ==
    /\ response' = [response EXCEPT ![r] = resp]
    /\ pc' = [pc EXCEPT ![r] = "done"]

\* handleSlackEvent's promise, flag and setTimeout.
ArmGate(r) ==
    /\ isAcknowledged' = [isAcknowledged EXCEPT ![r] = FALSE]
    /\ responsePromise' = [responsePromise EXCEPT ![r] = PendingPromise]
    /\ timer' = [timer EXCEPT ![r] = [state |-> "armed", delay |-> ackTimeoutMs]]
    /\ gate' = [gate EXCEPT ![r] = "Pending"]
    /\ UNCHANGED settleCalls

\* Mutant of VerificationFails: the request is verified whatever the
\* signatureVerification option says.
VerificationFails_IgnoresOption(req) == verifyRequest(req) # NoError

\* Mutant of VerificationFails: the body is parsed first, and verified only
\* when it parses.
VerificationFails_AfterParse(req) ==
    signatureVerification /\ parseRequestBody(req).ok /\ verifyRequest(req) # NoError

\* `if (this.signatureVerification) { this.verifyRequest(req, rawBody); }`
\* throws.
VerificationFails(req) == signatureVerification /\ verifyRequest(req) # NoError

\* Mutant of IsChallenge: the handler without its challenge short-circuit.
IsChallenge_Never(body) == FALSE

\* `body.type === "url_verification"`
IsChallenge(body) == Get(body, "type") = "url_verification"

\* Response.json({ challenge: body.challenge })
ChallengeResponse(body) == Resp(200, "challenge", Get(body, "challenge"), "")

\* Mutant of toHandlerCatch: the handler has no catch block, what is thrown
\* rejects the promise the handler returned.
toHandlerCatch_Rethrows(r, error) ==
    /\ pc' = [pc EXCEPT ![r] = "rejected"]
    /\ UNCHANGED response

\* toHandler's `catch (error) { return this.handleError(error); }`
toHandlerCatch(r, error) == Returns(r, handleError(error))

\* Mutant of CallExtractor: the extractor is called for the event and once
\* more for the log line.
CallExtractor_Twice(r) ==
    extractorCalls' = [extractorCalls EXCEPT ![r] = IF customPropertiesExtractor THEN @ + 2 ELSE @]

\* createSlackReceiverEvent calls the extractor when there is one.
CallExtractor(r) ==
    extractorCalls' = [extractorCalls EXCEPT ![r] = IF customPropertiesExtractor THEN @ + 1 ELSE @]

\* Mutant of RegisterWaitUntil: app.processEvent(event) is called and its
\* promise is not handed to waitUntil.
RegisterWaitUntil_Skipped(r) == UNCHANGED waitUntilPromise

\* `waitUntil(this.app.processEvent(event).catch(...))`
RegisterWaitUntil(r) ==
    waitUntilPromise' = [waitUntilPromise EXCEPT ![r] = "pending"]

\* Mutant of AppBound: handleSlackEvent without its guard.
AppBound_Unchecked == TRUE

\* `if (!this.app) { throw ... }` does not throw.
AppBound == app # "none"

\* From the settled `await req.text()` to the handler's next suspension point:
\* verifyRequest, parseRequestBody, the challenge check, and handleSlackEvent
\* up to `await responsePromise`. Whatever is thrown on the way is caught by
\* toHandler's catch block and becomes handleError's response.
HandleRequest(r, req) ==
    /\ pc[r] = "readBody"
    /\ IF ~req.readOk
       THEN /\ toHandlerCatch(r, GenericError("Failed to read body"))
            /\ UNCHANGED <<gateVars, pe, event, extractorCalls, engine, waitUntilPromise>>
       ELSE IF VerificationFails(req)
       THEN /\ toHandlerCatch(r, verifyRequest(req))
            /\ UNCHANGED <<gateVars, pe, event, extractorCalls, engine, waitUntilPromise>>
       ELSE IF ~parseRequestBody(req).ok
       THEN /\ toHandlerCatch(r, parseRequestBody(req).err)
            /\ UNCHANGED <<gateVars, pe, event, extractorCalls, engine, waitUntilPromise>>
       ELSE IF parseRequestBody(req).value = JSNull
       THEN /\ toHandlerCatch(r, TypeError("Cannot read properties of null (reading 'type')"))
            /\ UNCHANGED <<gateVars, pe, event, extractorCalls, engine, waitUntilPromise>>
       ELSE IF IsChallenge(parseRequestBody(req).value)
       THEN /\ Returns(r, ChallengeResponse(parseRequestBody(req).value))
            /\ UNCHANGED <<gateVars, pe, event, extractorCalls, engine, waitUntilPromise>>
       ELSE IF ~AppBound
       THEN /\ toHandlerCatch(r, VercelReceiverError("App not initialized", 500))
            /\ UNCHANGED <<gateVars, pe, event, extractorCalls, engine, waitUntilPromise>>
       ELSE IF ExtractorThrows(req)
       THEN /\ ArmGate(r)
            /\ CallExtractor(r)
            /\ toHandlerCatch(r, ExtractorError(req))
            /\ UNCHANGED <<pe, event, engine, waitUntilPromise>>
       ELSE IF req.engineThrows
       THEN /\ ArmGate(r)
            /\ CallExtractor(r)
            /\ pe' = [pe EXCEPT ![r] = "threw"]
            /\ event' = [event EXCEPT ![r] = createSlackReceiverEvent(req)]
            /\ engine' = [engine EXCEPT ![r] = app]
            /\ toHandlerCatch(r, TypeError("processEvent threw"))
            /\ UNCHANGED waitUntilPromise
       ELSE /\ ArmGate(r)
            /\ CallExtractor(r)
            /\ pe' = [pe EXCEPT ![r] = "running"]
            /\ event' = [event EXCEPT ![r] = createSlackReceiverEvent(req)]
            /\ engine' = [engine EXCEPT ![r] = app]
            /\ RegisterWaitUntil(r)
            /\ pc' = [pc EXCEPT ![r] = "awaitGate"]
            /\ UNCHANGED response
    /\ UNCHANGED <<cfgVars, handled, textCalls, app, lastInit, initVars, ackResult>>

\* Mutant of AckResponse: a string is serialized like any other value.
AckResponse_StringifiesStrings(v) ==
    CASE v.t = "undefined" -> Resp(200, "empty", "", "")
      [] v.t = "string"    -> Resp(200, "json", "\"" \o v.v \o "\"", "")
      [] OTHER             -> Resp(200, "json", JSONStringify(v.v), "")

\* The Response ackFn builds from the value it is given.
AckResponse(v) ==
    CASE v.t = "undefined" -> Resp(200, "empty", "", "")
      [] v.t = "string"    -> Resp(200, "text", v.v, "")
      [] OTHER             -> Resp(200, "json", JSONStringify(v.v), "")

\* Mutant of AlreadyAcknowledged: ackFn without its guard.
AlreadyAcknowledged_Never(r) == FALSE

\* `if (isAcknowledged)` of ackFn
AlreadyAcknowledged(r) == isAcknowledged[r]

\* Mutant of ackFn: the accepted call does not clearTimeout.
ackFn_NoClearTimeout(r, v) ==
    /\ pe[r] # "none"
    /\ IF AlreadyAcknowledged(r)
       THEN /\ ackResult' = [ackResult EXCEPT ![r] = "ReceiverMultipleAckError"]
            /\ UNCHANGED gateVars
       ELSE /\ isAcknowledged' = [isAcknowledged EXCEPT ![r] = TRUE]
            /\ gate' = [gate EXCEPT ![r] = "Acknowledged"]
            /\ responsePromise' = [responsePromise EXCEPT ![r] =
                   IF v.t = "circular"
                   THEN Reject(@, TypeError("Converting circular structure to JSON"))
                   ELSE Resolve(@, AckResponse(v))]
            /\ settleCalls' = [settleCalls EXCEPT ![r] = @ + 1]
            /\ ackResult' = [ackResult EXCEPT ![r] = "resolved"]
            /\ UNCHANGED timer
    /\ UNCHANGED <<cfgVars, handled, textCalls, app, lastInit, initVars, pc, pe, event, extractorCalls, engine, waitUntilPromise, response>>

\* Mutant of ackFn: the guard is tested after the response was built and
\* handed to responseResolver.
ackFn_GuardLast(r, v) ==
    /\ pe[r] # "none"
    /\ isAcknowledged' = [isAcknowledged EXCEPT ![r] = TRUE]
    /\ gate' = [gate EXCEPT ![r] = IF isAcknowledged[r] THEN @ ELSE "Acknowledged"]
    /\ timer' = [timer EXCEPT ![r].state = IF @ = "armed" THEN "cleared" ELSE @]
    /\ responsePromise' = [responsePromise EXCEPT ![r] =
           IF v.t = "circular"
           THEN Reject(@, TypeError("Converting circular structure to JSON"))
           ELSE Resolve(@, AckResponse(v))]
    /\ settleCalls' = [settleCalls EXCEPT ![r] = IF @ < 2 THEN @ + 1 ELSE @]
    /\ ackResult' = [ackResult EXCEPT
           ![r] = IF isAcknowledged[r] THEN "ReceiverMultipleAckError" ELSE "resolved"]
    /\ UNCHANGED <<cfgVars, handled, textCalls, app, lastInit, initVars, pc, pe, event, extractorCalls, engine, waitUntilPromise, response>>

\* One call of event.ack(v) by the engine, which holds the event from the
\* moment app.processEvent(event) is called.
ackFn(r, v) ==
    /\ pe[r] # "none"
    /\ IF AlreadyAcknowledged(r)
       THEN /\ ackResult' = [ackResult EXCEPT ![r] = "ReceiverMultipleAckError"]
            /\ UNCHANGED gateVars
       ELSE /\ isAcknowledged' = [isAcknowledged EXCEPT ![r] = TRUE]
            /\ gate' = [gate EXCEPT ![r] = "Acknowledged"]
            /\ timer' = [timer EXCEPT
                   ![r].state = IF @ = "armed" THEN "cleared" ELSE @]
            /\ responsePromise' = [responsePromise EXCEPT ![r] =
                   IF v.t = "circular"
                   THEN Reject(@, TypeError("Converting circular structure to JSON"))
                   ELSE Resolve(@, AckResponse(v))]
            /\ settleCalls' = [settleCalls EXCEPT ![r] = @ + 1]
            /\ ackResult' = [ackResult EXCEPT ![r] = "resolved"]
    /\ UNCHANGED <<cfgVars, handled, textCalls, app, lastInit, initVars, pc, pe, event, extractorCalls, engine, waitUntilPromise, response>>

\* Mutant of TimeoutCallback: the callback rejects the response promise and
\* leaves isAcknowledged as it was.
TimeoutCallback_NoFlag(r) ==
    IF ~isAcknowledged[r]
    THEN /\ gate' = [gate EXCEPT ![r] = "TimedOut"]
         /\ responsePromise' = [responsePromise EXCEPT ![r] = Reject(@, TimeoutError)]
         /\ settleCalls' = [settleCalls EXCEPT ![r] = @ + 1]
         /\ UNCHANGED isAcknowledged
    ELSE UNCHANGED <<isAcknowledged, gate, responsePromise, settleCalls>>

\* Mutant of TimeoutCallback: isAcknowledged is a field of the receiver, one
\* flag for all requests.
TimeoutCallback_SharedFlag(r) ==
    IF ~isAcknowledged[r]
    THEN /\ isAcknowledged' = [q \in Reqs |-> TRUE]
         /\ gate' = [gate EXCEPT ![r] = "TimedOut"]
         /\ responsePromise' = [responsePromise EXCEPT ![r] = Reject(@, TimeoutError)]
         /\ settleCalls' = [settleCalls EXCEPT ![r] = @ + 1]
    ELSE UNCHANGED <<isAcknowledged, gate, responsePromise, settleCalls>>

\* Mutant of TimeoutCallback: the callback marks the gate and does not reject
\* the response promise.
TimeoutCallback_NoReject(r) ==
    IF ~isAcknowledged[r]
    THEN /\ isAcknowledged' = [isAcknowledged EXCEPT ![r] = TRUE]
         /\ gate' = [gate EXCEPT ![r] = "TimedOut"]
         /\ UNCHANGED <<responsePromise, settleCalls>>
    ELSE UNCHANGED <<isAcknowledged, gate, responsePromise, settleCalls>>

\* The body of the setTimeout callback.
TimeoutCallback(r) ==
    IF ~isAcknowledged[r]
    THEN /\ isAcknowledged' = [isAcknowledged EXCEPT ![r] = TRUE]
         /\ gate' = [gate EXCEPT ![r] = "TimedOut"]
         /\ responsePromise' = [responsePromise EXCEPT ![r] = Reject(@, TimeoutError)]
         /\ settleCalls' = [settleCalls EXCEPT ![r] = @ + 1]
    ELSE UNCHANGED <<isAcknowledged, gate, responsePromise, settleCalls>>

\* ackTimeoutMs have elapsed on a timer that was not cleared.
TimerFires(r) ==
    /\ timer[r].state = "armed"
    /\ timer' = [timer EXCEPT ![r].state = "fired"]
    /\ TimeoutCallback(r)
    /\ UNCHANGED <<cfgVars, handled, textCalls, app, lastInit, initVars, pc, pe, event, extractorCalls, engine, waitUntilPromise, ackResult, response>>

\* Mutant of GateReturns: the handler also awaits app.processEvent(event).
GateReturns_AwaitsEngine(r) ==
    /\ pc[r] = "awaitGate"
    /\ responsePromise[r].state \in {"resolved", "rejected"}
    /\ pe[r] # "running"
    /\ Returns(r, IF responsePromise[r].state = "resolved"
                  THEN responsePromise[r].resp
                  ELSE handleError(responsePromise[r].err))
    /\ UNCHANGED <<cfgVars, handled, textCalls, app, lastInit, initVars, gateVars, pe, event, extractorCalls, engine, waitUntilPromise, ackResult>>

\* `return await responsePromise` and its catch block.
GateReturns(r) ==
    /\ pc[r] = "awaitGate"
    /\ responsePromise[r].state \in {"resolved", "rejected"}
    /\ Returns(r, IF responsePromise[r].state = "resolved"
                  THEN responsePromise[r].resp
                  ELSE handleError(responsePromise[r].err))
    /\ UNCHANGED <<cfgVars, handled, textCalls, app, lastInit, initVars, gateVars, pe, event, extractorCalls, engine, waitUntilPromise, ackResult>>

\* Mutant of ProcessEventSettles: a rejection of app.processEvent is handed
\* to responseRejecter instead of being left to the deadline.
ProcessEventSettles_RejectsGate(r, outcome) ==
    /\ pe[r] = "running"
    /\ pe' = [pe EXCEPT ![r] = outcome]
    /\ waitUntilPromise' = [waitUntilPromise EXCEPT ![r] = "resolved"]
    /\ IF outcome = "rejected" /\ responsePromise[r].state = "pending"
       THEN /\ responsePromise' = [responsePromise EXCEPT
                   ![r] = Reject(@, GenericError("processEvent failed"))]
            /\ settleCalls' = [settleCalls EXCEPT ![r] = @ + 1]
            /\ UNCHANGED <<isAcknowledged, timer, gate>>
       ELSE UNCHANGED gateVars
    /\ UNCHANGED <<cfgVars, handled, textCalls, app, lastInit, initVars, pc, event, extractorCalls, engine, ackResult, response>>

\* Mutant of ProcessEventSettles: app.processEvent(event) is handed to
\* waitUntil without the .catch callback.
ProcessEventSettles_NoCatch(r, outcome) ==
    /\ pe[r] = "running"
    /\ pe' = [pe EXCEPT ![r] = outcome]
    /\ waitUntilPromise' = [waitUntilPromise EXCEPT ![r] = outcome]
    /\ UNCHANGED <<cfgVars, handled, textCalls, app, lastInit, initVars, pc, gateVars, event, extractorCalls, engine, ackResult,
                   response>>

\* The engine settles the promise app.processEvent(event) returned. A
\* rejection runs the .catch callback, whose handleError logs the error and
\* returns a Response: the promise handed to waitUntil resolves either way.
ProcessEventSettles(r, outcome) ==
    /\ pe[r] = "running"
    /\ pe' = [pe EXCEPT ![r] = outcome]
    /\ waitUntilPromise' = [waitUntilPromise EXCEPT ![r] = "resolved"]
    /\ UNCHANGED <<cfgVars, handled, textCalls, app, lastInit, initVars, pc, gateVars, event, extractorCalls, engine, ackResult,
                   response>>

(***************************************************************************)
(* Specifications                                                          *)
(***************************************************************************)

Next ==
    \/ ReceiverInit("app")
    \/ \E r \in Reqs : CreateHandlerEnter(r)
    \/ \E i \in 1..MaxReq, o \in {"resolved", "rejected"} : InitSettles(i, o)
    \/ \E r \in Reqs : CreateHandlerResume(r)
    \/ \E r \in Reqs : CreateHandlerCallsHandler(r)
    \/ \E r \in Reqs : ReceiverEnter(r)
    \/ \E r \in Reqs, req \in Requests : HandleRequest(r, req)
    \/ \E r \in Reqs, v \in AckValues : ackFn(r, v)
    \/ \E r \in Reqs : TimerFires(r)
    \/ \E r \in Reqs : GateReturns(r)
    \/ \E r \in Reqs, o \in {"resolved", "rejected"} : ProcessEventSettles(r, o)

Spec == Init /\ [][Next]_vars

\* The event loop runs every continuation that is ready and every timer that
\* is armed; the body read completes. Nothing obliges the engine to call ack,
\* to settle app.init() or to settle app.processEvent().
Fairness ==
    \A r \in Reqs :
        /\ WF_vars(CreateHandlerResume(r))
        /\ WF_vars(CreateHandlerCallsHandler(r))
        /\ WF_vars(\E req \in Requests : HandleRequest(r, req))
        /\ WF_vars(TimerFires(r))
        /\ WF_vars(GateReturns(r))

LiveSpec == Spec /\ Fairness

(***************************************************************************)
(* The handler over its inputs: a receiver configured with or without      *)
(* signature verification serves requests with every combination of the    *)
(* two signature headers, and the engine acknowledges with every kind of   *)
(* value. One request is served in a behaviour: this specification is      *)
(* about what the handler makes of a request, whatever the request is.     *)
(***************************************************************************)

\* The timestamps a request carries: stale by one second, at the edge of the
\* five-minute window, and current.
Timestamps == {NoTimestamp, Header(Now - 301), Header(Now - 300), Header(Now)}

\* The signatures a request with this timestamp and body carries: none, the
\* right one, one computed for another body (the body was tampered with),
\* and one computed with another secret.
Signatures(timestamp, rawBody) ==
    { NoSignature,
      Header(Sign(signingSecret, IF timestamp.present THEN timestamp.v ELSE Now, rawBody)),
      Header(Sign(signingSecret, IF timestamp.present THEN timestamp.v ELSE Now, "b2")),
      Header(Sign("forged", IF timestamp.present THEN timestamp.v ELSE Now, rawBody)) }

\* The raw bodies: JSON texts, form texts, and texts that are neither.
JsonBodies == {EventText, ChallengeText("c1"), ChallengeText("c2")}

RawBodies ==
    JsonBodies \cup
    { BlockActionsText, "null", "42", "\"text\"", "[]", "", MalformedText,
      PayloadFormText, CommandFormText, BadPayloadFormText, ChallengeFormText }

\* The x-slack-retry-num and x-slack-retry-reason headers a request carries.
RetryNums == {NoHeader, Header(""), Header("0"), Header("1"), Header("3"), Header("-1"), Header("abc")}

RetryReasons == {NoHeader, Header(""), Header("http_timeout")}

\* A request sent now and signed with the receiver's secret.
SignedRequest(contentType, rawBody, retryNum, retryReason, extractor, engineThrows) ==
    FullRequest(TRUE, contentType, rawBody, Header(Now), Header(Sign(signingSecret, Now, rawBody)), retryNum, retryReason, extractor, engineThrows)

\* The requests served: every combination of the signature headers on the
\* JSON bodies and on the malformed one, every content type on every raw
\* body, every combination of the retry headers, and every result of the
\* extractor.
AllRequests ==
    Requests
    \cup UNION { { FullRequest(TRUE, JsonContentType, rawBody, ts, sig, NoHeader, NoHeader, "p1", FALSE) :
                      sig \in Signatures(ts, rawBody) } :
                  <<ts, rawBody>> \in Timestamps \X (JsonBodies \cup {MalformedText}) }
    \cup { SignedRequest(contentType, rawBody, NoHeader, NoHeader, "p1", FALSE) :
              <<contentType, rawBody>> \in ContentTypes \X RawBodies }
    \cup { SignedRequest(JsonContentType, EventText, retryNum, retryReason, "p1", FALSE) :
              <<retryNum, retryReason>> \in RetryNums \X RetryReasons }
    \cup { SignedRequest(JsonContentType, EventText, NoHeader, NoHeader, extractor, engineThrows) :
              <<extractor, engineThrows>> \in ExtractorResults \X BOOLEAN }

RequestInit ==
    /\ ackTimeoutMs = Constructor(DefaultOptions)
    /\ signatureVerification \in BOOLEAN
    /\ customPropertiesExtractor \in BOOLEAN
    /\ app = "none"
    /\ lastInit = "none"
    /\ initPromise = Null
    /\ attempts = <<>>
    /\ pc = [r \in Reqs |-> "idle"]
    /\ awaits = [r \in Reqs |-> Null]
    /\ direct = FALSE
    /\ isAcknowledged = [r \in Reqs |-> FALSE]
    /\ timer = [r \in Reqs |-> [state |-> "none", delay |-> 0]]
    /\ responsePromise = [r \in Reqs |-> NoPromise]
    /\ settleCalls = [r \in Reqs |-> 0]
    /\ gate = [r \in Reqs |-> "Unarmed"]
    /\ pe = [r \in Reqs |-> "none"]
    /\ event = [r \in Reqs |-> NoEvent]
    /\ extractorCalls = [r \in Reqs |-> 0]
    /\ engine = [r \in Reqs |-> "none"]
    /\ waitUntilPromise = [r \in Reqs |-> "none"]
    /\ ackResult = [r \in Reqs |-> "none"]
    /\ response = [r \in Reqs |-> NoResponse]
    /\ textCalls = [r \in Reqs |-> 0]
    /\ handled = NoResponse

\* The one request of a behaviour arrives.
ReceiverEnterOnce(r) ==
    /\ \A q \in Reqs : r <= q
    /\ ReceiverEnter(r)

RequestNext ==
    \/ \E a \in Apps : ReceiverInit(a)
    \/ \E r \in Reqs : ReceiverEnterOnce(r)
    \/ \E r \in Reqs, req \in AllRequests : HandleRequest(r, req)
    \/ \E r \in Reqs, v \in AllAckValues : ackFn(r, v)
    \/ \E r \in Reqs : TimerFires(r)
    \/ \E r \in Reqs : GateReturns(r)
    \/ \E r \in Reqs, o \in {"resolved", "rejected"} : ProcessEventSettles(r, o)

RequestSpec == RequestInit /\ [][RequestNext]_vars

(***************************************************************************)
(* handleError over the errors of the taxonomy. handleError is a public    *)
(* method: it is called here on its own, with every kind of error.         *)
(***************************************************************************)

\* The messages of the errors.
Messages == {"Invalid signature", "Something failed"}

\* Errors of @slack/bolt, known to getStatusCode by the name of their class.
BoltError(cls, message) == Err(cls, message, FALSE, 0)

\* The errors handleError is given: the kinds getStatusCode names, the
\* receiver's own errors, and errors of no named kind.
Errors ==
    { BoltError(cls, message) :
          cls \in {"ReceiverAuthenticityError", "SignatureVerificationError",
                   "ReceiverMultipleAckError", "RequestParsingError"},
          message \in Messages }
    \cup { RequestParsingError(message) : message \in Messages }
    \cup { TimeoutError, VercelReceiverError("App not initialized", 500) }
    \cup { GenericError(message) : message \in Messages }
    \cup { TypeError(message) : message \in Messages }
    \cup { ThrownString(message) : message \in Messages }

\* `receiver.handleError(error)`
HandleErrorCalled(error) ==
    /\ handled' = handleError(error)
    /\ UNCHANGED <<cfgVars, textCalls, app, lastInit, initVars, pc, gateVars, pe, event, extractorCalls, engine, waitUntilPromise, ackResult, response>>

ErrorNext ==
    \/ \E a \in Apps : ReceiverInit(a)
    \/ \E error \in Errors : HandleErrorCalled(error)

ErrorSpec == RequestInit /\ [][ErrorNext]_vars

(***************************************************************************)
(* The acknowledgment gate                                                 *)
(***************************************************************************)

\* The engine calls ack on r's event in this step.
AckCalled(r) == \E v \in AckValues : ackFn(r, v)

\* The deadline fired while r's gate was pending: its callback rejected the
\* response promise.
DeadlineFiredWhilePending(r) ==
    /\ timer[r].state = "fired"
    /\ responsePromise[r].state = "rejected"
    /\ responsePromise[r].err = TimeoutError

\* C1: once an ack call on an event has been accepted, every further ack
\* call on that event rejects with ReceiverMultipleAckError, before and after
\* the handler has returned the response of the first call.
C1_FurtherAcksReject ==
    [][\A r \in Reqs :
          (gate[r] = "Acknowledged" /\ AckCalled(r))
              => ackResult'[r] = "ReceiverMultipleAckError"]_vars

\* Two events whose second ack was rejected: one while its handler still
\* awaits the gate, one after its handler returned the first ack's response.
C1_Witness ==
    \E r, q \in Reqs :
        /\ gate[r] = "Acknowledged" /\ gate[q] = "Acknowledged"
        /\ ackResult[r] = "ReceiverMultipleAckError"
        /\ ackResult[q] = "ReceiverMultipleAckError"
        /\ pc[r] = "awaitGate"
        /\ pc[q] = "done" /\ response[q].status = 200

\* C2: when the deadline has fired on a pending gate, no ack call on that
\* event resolves: every one made afterwards rejects with
\* ReceiverMultipleAckError.
C2_LateAckRejects ==
    \A r \in Reqs :
        DeadlineFiredWhilePending(r)
            => ackResult[r] \in {"none", "ReceiverMultipleAckError"}

\* An ack made after the deadline fired, rejected.
C2_Witness ==
    \E r \in Reqs :
        /\ DeadlineFiredWhilePending(r)
        /\ ackResult[r] = "ReceiverMultipleAckError"

\* The states of one request's gate. An accepted ack settles the response
\* promise itself (it resolves it, or rejects it when building the response
\* throws); the deadline settles it with the timeout error.
C3_GateStates ==
    \A r \in Reqs :
        /\ settleCalls[r] <= 1
        /\ CASE gate[r] = "Unarmed" ->
                  /\ timer[r].state = "none"
                  /\ responsePromise[r].state = "none"
             [] gate[r] = "Pending" ->
                  /\ ~isAcknowledged[r]
                  /\ timer[r].state = "armed"
                  /\ responsePromise[r].state = "pending"
                  /\ settleCalls[r] = 0
             [] gate[r] = "Acknowledged" ->
                  /\ isAcknowledged[r]
                  /\ timer[r].state = "cleared"
                  /\ responsePromise[r].state \in {"resolved", "rejected"}
                  /\ responsePromise[r].err # TimeoutError
                  /\ settleCalls[r] = 1
             [] gate[r] = "TimedOut" ->
                  /\ isAcknowledged[r]
                  /\ timer[r].state = "fired"
                  /\ responsePromise[r].state = "rejected"
                  /\ responsePromise[r].err = TimeoutError
                  /\ settleCalls[r] = 1
             [] OTHER -> FALSE

\* Acknowledged and TimedOut are terminal: nothing changes a gate in them.
C3_Terminal ==
    \A r \in Reqs :
        gate[r] \in {"Acknowledged", "TimedOut"}
            => /\ gate'[r] = gate[r]
               /\ isAcknowledged'[r] = isAcknowledged[r]
               /\ timer'[r] = timer[r]
               /\ responsePromise'[r] = responsePromise[r]
               /\ settleCalls'[r] = settleCalls[r]

AnsweredHandlerError(r) ==
    pc[r] = "done" /\ response[r] = HandlerErrorResponse

\* C4: when a request has been answered 500 HandlerError because app.init()
\* rejected, the rejected attempt is not kept: a request that enters
\* afterwards calls app.init() again and awaits the new attempt, not the
\* rejected one, and is answered HandlerError only if its own attempt rejects.
C4_RetriesInitAfterFailure ==
    [][\A r \in Reqs :
          CreateHandlerEnter(r)
              => \A q \in Reqs :
                     AnsweredHandlerError(q)
                         => /\ awaits'[r] # awaits[q]
                            /\ Len(attempts') = Len(attempts) + 1]_vars

\* C5: while no app.init() call has rejected, app.init() has been called
\* exactly once, however many requests the createHandler handler has served.
C5_InitCalledOnce ==
    (\A i \in 1..Len(attempts) : attempts[i] # "rejected")
        => /\ Len(attempts) <= 1
           /\ (~direct /\ \E r \in Reqs : pc[r] # "idle") => Len(attempts) = 1

\* Two requests served one after the other by the createHandler handler,
\* each acknowledged and answered 200, after one app.init() call.
C5_Witness ==
    /\ ~direct
    /\ \A r \in Reqs : r <= 2 => pc[r] = "done" /\ response[r].status = 200
    /\ attempts = <<"resolved">>

\* The app.init() calls that have not settled.
InFlight == {i \in 1..Len(attempts) : attempts[i] = "pending"}

\* C6: at most one initialization attempt is in flight, and while the first
\* attempt has not settled it is the only one: every request that has
\* entered the createHandler handler awaits it.
C6_OneAttemptInFlight ==
    /\ Cardinality(InFlight) <= 1
    /\ \A r \in Reqs : pc[r] = "awaitInit" => awaits[r] \in 1..Len(attempts)
    /\ (Len(attempts) >= 1 /\ attempts[1] = "pending")
           => /\ Len(attempts) = 1
              /\ \A r \in Reqs : pc[r] = "awaitInit" => awaits[r] = 1

\* Two requests suspended on the one pending attempt.
C6_Witness ==
    /\ attempts = <<"pending">>
    /\ \E r, q \in Reqs :
           /\ r # q
           /\ pc[r] = "awaitInit" /\ pc[q] = "awaitInit"
           /\ awaits[r] = 1 /\ awaits[q] = 1

(***************************************************************************)
(* The handler's response                                                  *)
(***************************************************************************)

\* app.processEvent(event) was called and returned its promise.
Dispatched(r) == pe[r] \in {"running", "resolved", "rejected"}

TimeoutResponse == Resp(408, "error", "Request timeout", "VercelReceiverError")

\* C7: when the deadline, armed with the configured ackTimeoutMs (3001 by
\* default), fires on a dispatched event no ack was accepted on, the handler
\* responds 408 with {error: "Request timeout", type: "VercelReceiverError"}.
C7_TimeoutResponds408 ==
    /\ ackTimeoutMs = ACK_TIMEOUT_MS
    /\ \A r \in Reqs :
           /\ timer[r].state # "none" => timer[r].delay = ackTimeoutMs
           /\ (Dispatched(r) /\ timer[r].state = "fired")
                  => /\ responsePromise[r].state = "rejected"
                     /\ handleError(responsePromise[r].err) = TimeoutResponse
                     /\ pc[r] = "done" => response[r] = TimeoutResponse

\* A request answered 408 after its 3001 ms timer fired.
C7_Witness ==
    \E r \in Reqs :
        /\ Dispatched(r)
        /\ timer[r] = [state |-> "fired", delay |-> ACK_TIMEOUT_MS]
        /\ pc[r] = "done"
        /\ response[r] = TimeoutResponse

\* C8: every invocation of the receiver's handler returns a response, given
\* that the body read completes and armed timers fire; neither an ack call
\* nor the settling of app.processEvent is needed.
C8_HandlerAlwaysResponds ==
    \A r \in Reqs : (pc[r] = "readBody") ~> (pc[r] = "done")

\* A request answered although the engine never called ack and
\* app.processEvent has not settled.
C8_Witness ==
    \E r \in Reqs :
        /\ pc[r] = "done"
        /\ pe[r] = "running"
        /\ ackResult[r] = "none"
        /\ response[r].status = 408

\* C9: an ack call that is rejected changes nothing of the request but the
\* outcome of that call: the gate, its timer and response promise, and the
\* response returned stay as they were.
C9_RejectedAckChangesNothing ==
    [][\A r \in Reqs :
          (AckCalled(r) /\ ackResult'[r] = "ReceiverMultipleAckError")
              => UNCHANGED <<isAcknowledged, timer, responsePromise,
                             settleCalls, gate, pc, pe, event, waitUntilPromise, response>>]_vars

\* A rejected second ack on an answered request, and a rejected late ack on
\* a timed-out one.
C9_Witness ==
    \E r, q \in Reqs :
        /\ gate[r] = "Acknowledged" /\ ackResult[r] = "ReceiverMultipleAckError"
        /\ pc[r] = "done" /\ response[r] = AckResponse([t |-> "object", v |-> "ok"])
        /\ gate[q] = "TimedOut" /\ ackResult[q] = "ReceiverMultipleAckError"
        /\ pc[q] = "done" /\ response[q] = TimeoutResponse

\* r's handler awaits the gate and the response promise has settled.
GateSettled(r) ==
    pc[r] = "awaitGate" /\ responsePromise[r].state \in {"resolved", "rejected"}

\* C10: once the gate has settled the handler returns its response, whether
\* app.processEvent has settled, is still running, or never settles.
C10_ReturnsWithoutAwaitingEngine ==
    \A r \in Reqs : GateSettled(r) ~> (pc[r] = "done")

\* The first ack's response returned while app.processEvent is still running.
C10_Witness ==
    \E r \in Reqs :
        /\ pc[r] = "done"
        /\ response[r].status = 200
        /\ gate[r] = "Acknowledged"
        /\ pe[r] = "running"

(***************************************************************************)
(* The background phase                                                    *)
(***************************************************************************)

\* A rejection of app.processEvent on a pending gate changes nothing of the
\* request: no response, the gate pending, the timer armed.
C11_RejectionStep ==
    \A r \in Reqs :
        (gate[r] = "Pending" /\ ProcessEventSettles(r, "rejected"))
            => /\ gate'[r] = "Pending"
               /\ timer'[r].state = "armed"
               /\ responsePromise'[r].state = "pending"
               /\ pc'[r] = pc[r]
               /\ response'[r] = NoResponse

\* A request whose app.processEvent rejected and on which ack was never
\* called was answered, if at all, by the deadline.
C11_AnsweredByDeadline ==
    \A r \in Reqs :
        (pe[r] = "rejected" /\ ackResult[r] = "none" /\ pc[r] = "done")
            => gate[r] = "TimedOut" /\ response[r] = TimeoutResponse

\* C11: when app.processEvent rejects before ack was ever called, no error
\* response is produced at that moment: the gate stays pending and the timer
\* armed, the handler goes on to return, and if no ack comes what it returns
\* is the deadline's 408.
C11_RejectionLeftToDeadline ==
    /\ [][C11_RejectionStep]_vars
    /\ []C11_AnsweredByDeadline
    /\ \A r \in Reqs : (pe[r] = "rejected" /\ gate[r] = "Pending") ~> (pc[r] = "done")

\* A request answered 408 by the deadline after its app.processEvent
\* rejected on the pending gate, ack never called.
C11_Witness ==
    \E r \in Reqs :
        /\ pe[r] = "rejected" /\ ackResult[r] = "none"
        /\ gate[r] = "TimedOut"
        /\ pc[r] = "done" /\ response[r] = TimeoutResponse

\* A rejection of app.processEvent on an acknowledged gate leaves the
\* response promise and the returned response as they are, and the promise
\* handed to waitUntil resolves.
C12_RejectionStep ==
    \A r \in Reqs :
        (gate[r] = "Acknowledged" /\ ProcessEventSettles(r, "rejected"))
            => /\ responsePromise'[r] = responsePromise[r]
               /\ response'[r] = response[r]
               /\ pc'[r] = pc[r]
               /\ waitUntilPromise'[r] = "resolved"

\* The response of an acknowledged request whose app.processEvent returned
\* its promise is the one its ack determined, whatever became of the promise.
C12_ResponseIsTheAcks ==
    \A r \in Reqs :
        /\ waitUntilPromise[r] # "rejected"
        /\ (Dispatched(r) /\ gate[r] = "Acknowledged" /\ pc[r] = "done")
               => response[r] = IF responsePromise[r].state = "resolved"
                                THEN responsePromise[r].resp
                                ELSE handleError(responsePromise[r].err)

\* C12: when app.processEvent rejects after ack determined the response, the
\* rejection is caught (by the .catch callback, whose handleError logs it):
\* the response of the request is unchanged and the promise handed to
\* waitUntil never rejects.
C12_BackgroundRejectionCaught ==
    [][C12_RejectionStep]_vars /\ []C12_ResponseIsTheAcks

\* Two acknowledged requests whose app.processEvent rejected afterwards: one
\* before its handler returned, one already answered 200.
C12_Witness ==
    \E r \in Reqs :
        /\ gate[r] = "Acknowledged" /\ pe[r] = "rejected"
        /\ waitUntilPromise[r] = "resolved"
        /\ pc[r] = "done"
        /\ response[r] = AckResponse([t |-> "object", v |-> "ok"])

(***************************************************************************)
(* createHandler's failure response                                        *)
(***************************************************************************)

\* The step that resumes a request on a rejected app.init() answers it, with
\* 500 HandlerError, without entering the receiver's handler.
C13_FailureStep ==
    \A r \in Reqs :
        (pc[r] = "awaitInit" /\ CreateHandlerResume(r)
                             /\ attempts[awaits[r]] = "rejected")
            => /\ pc'[r] = "done"
               /\ response'[r] =
                      Resp(500, "error", "Internal Server Error", "HandlerError")

\* A request answered on a rejected app.init() has that response, and
\* nothing of the receiver's handler happened for it: no gate, no timer, no
\* event, no app.processEvent call.
C13_NothingInvoked ==
    \A r \in Reqs :
        (pc[r] = "done" /\ awaits[r] # Null)
            => /\ attempts[awaits[r]] = "rejected"
               /\ response[r] =
                      Resp(500, "error", "Internal Server Error", "HandlerError")
               /\ gate[r] = "Unarmed" /\ timer[r].state = "none"
               /\ event[r] = NoEvent
               /\ pe[r] = "none" /\ waitUntilPromise[r] = "none"

ValidAndFresh(req) ==
    /\ req.timestamp.present /\ req.signature.present
    /\ Now - req.timestamp.v <= 300 /\ req.timestamp.v - Now <= 300
    /\ req.signature.v = Sign(signingSecret, req.timestamp.v, req.rawBody)

\* The request lacks a header, or its timestamp is more than 300 seconds
\* old, or its signature is not the one of its timestamp and raw body.
FailsVerification(req) ==
    \/ ~req.timestamp.present \/ ~req.signature.present
    \/ Now - req.timestamp.v > 300
    \/ req.signature.v # Sign(signingSecret, req.timestamp.v, req.rawBody)

\* The handler gets to parse the request, and parses it to a value that is
\* not null.
Parsed(req) ==
    /\ req.readOk
    /\ signatureVerification => ValidAndFresh(req)
    /\ parseRequestBody(req).ok
    /\ parseRequestBody(req).value # JSNull

\* The parsed payload of the request.
Payload(req) == parseRequestBody(req).value

\* Nothing of handleSlackEvent has happened for r.
NotHandedToEngine(r) ==
    /\ gate[r] = "Unarmed" /\ timer[r].state = "none"
    /\ responsePromise[r].state = "none"
    /\ event[r] = NoEvent
    /\ pe[r] = "none" /\ waitUntilPromise[r] = "none"

C14_ChallengeStep ==
    \A r \in Reqs, req \in AllRequests :
        (HandleRequest(r, req) /\ Parsed(req) /\ Get(Payload(req), "type") = "url_verification")
            => /\ pc'[r] = "done"
               /\ response'[r] = Resp(200, "challenge", Get(Payload(req), "challenge"), "")
               /\ NotHandedToEngine(r)'

C14_ChallengeNeverReachesEngine ==
    \A r \in Reqs : response[r].t = "challenge" => NotHandedToEngine(r)

\* C14: a request whose parsed payload has type "url_verification" is
\* answered 200 with {challenge: <the payload's challenge>}; no gate is
\* armed for it and app.processEvent is never invoked for it.
C14_ChallengeEchoed ==
    [][C14_ChallengeStep]_vars /\ []C14_ChallengeNeverReachesEngine

\* A verified challenge with the value "c2", echoed.
C14_Witness ==
    \E r \in Reqs :
        /\ signatureVerification
        /\ pc[r] = "done"
        /\ response[r] = Resp(200, "challenge", "c2", "")

C15_VerificationStep ==
    \A r \in Reqs, req \in AllRequests :
        (HandleRequest(r, req) /\ signatureVerification /\ req.readOk)
            => /\ ValidAndFresh(req)
                   => /\ response'[r].status # 401
                      /\ (Parsed(req) /\ Get(Payload(req), "type") = "url_verification")
                             => response'[r].t = "challenge"
                      /\ (Parsed(req) /\ Get(Payload(req), "type") # "url_verification"
                            /\ app # "none" /\ ~ExtractorThrows(req)
                            /\ ~req.engineThrows)
                             => /\ pe'[r] = "running"
                                /\ event'[r].body = Payload(req)
               /\ FailsVerification(req)
                   => /\ pc'[r] = "done"
                      /\ response'[r].status = 401
                      /\ response'[r].t = "error"
                      /\ NotHandedToEngine(r)'

\* C15: with signature verification enabled, a request with a valid
\* signature and a fresh timestamp passes verification (it is parsed, and
\* echoed or handed to the engine), and a request whose verification fails
\* (a header missing, the timestamp stale, the signature not the one of its
\* body) is answered 401 and goes no further: no event is built, a challenge
\* in it is not echoed, app.processEvent is not invoked.
C15_VerificationGuardsTheHandler ==
    /\ [][C15_VerificationStep]_vars
    /\ [](\A r \in Reqs : response[r].status = 401 => NotHandedToEngine(r))

\* A request with both headers answered 401 by the signature check.
C15_Witness ==
    \E r \in Reqs :
        /\ signatureVerification
        /\ pc[r] = "done"
        /\ response[r].status = 401
        /\ response[r].v = "Failed to verify request signature"

\* b is a with other x-slack-request-timestamp and x-slack-signature headers
\* (or without them).
SameButSignatureHeaders(a, b) ==
    [a EXCEPT !.timestamp = b.timestamp, !.signature = b.signature] = b

C17_HeadersIgnoredStep ==
    \A r \in Reqs :
        ~signatureVerification
            => \A a \in AllRequests :
                   HandleRequest(r, a)
                       => \A b \in AllRequests :
                              SameButSignatureHeaders(a, b) => HandleRequest(r, b)

\* C17: with signatureVerification false, two requests that differ only in
\* the presence or the value of the two signature headers get the same
\* outcome (the handler's step on one is its step on the other: the same
\* response, the same event to the engine), and no request is answered 401.
C17_DisabledVerificationIgnoresHeaders ==
    /\ [][C17_HeadersIgnoredStep]_vars
    /\ [](~signatureVerification => \A r \in Reqs : response[r].status # 401)

\* An event delivered to the engine and acknowledged by a receiver that does
\* not verify signatures.
C17_Witness ==
    \E r \in Reqs :
        /\ ~signatureVerification
        /\ Get(event[r].body, "type") = "event_callback"
        /\ pc[r] = "done" /\ response[r].status = 200

C18_MissingHeaderStep ==
    \A r \in Reqs, req \in AllRequests :
        (HandleRequest(r, req) /\ signatureVerification /\ req.readOk)
            => /\ (req.signature.present /\ ~req.timestamp.present)
                   => /\ response'[r].status = 401
                      /\ response'[r].v =
                             "Missing required header: x-slack-request-timestamp"
               /\ (req.timestamp.present /\ ~req.signature.present)
                   => /\ response'[r].status = 401
                      /\ response'[r].v =
                             "Missing required header: x-slack-signature"

\* C18: with verification enabled, a request with a signature header and no
\* timestamp header is answered 401 with a message naming
\* x-slack-request-timestamp, and one with a timestamp header and no
\* signature header is answered 401 with a message naming x-slack-signature.
C18_MissingHeaderNamed == [][C18_MissingHeaderStep]_vars

\* A request answered 401 for its missing timestamp header (its signature
\* header was there: the signature header is looked for first).
C18_Witness ==
    \E r \in Reqs :
        /\ pc[r] = "done"
        /\ response[r].status = 401
        /\ response[r].v = "Missing required header: x-slack-request-timestamp"

C20_AcceptedAckStep ==
    \A r \in Reqs, v \in AllAckValues :
        (~isAcknowledged[r] /\ ackFn(r, v))
            => /\ v.t = "undefined"
                   => /\ responsePromise'[r].state = "resolved"
                      /\ responsePromise'[r].resp = Resp(200, "empty", "", "")
               /\ v.t = "string"
                   => /\ responsePromise'[r].state = "resolved"
                      /\ responsePromise'[r].resp = Resp(200, "text", v.v, "")
               /\ v.t = "object"
                   => /\ responsePromise'[r].state = "resolved"
                      /\ responsePromise'[r].resp =
                             Resp(200, "json", "{\"ok\":true}", "")

\* C20: the first accepted ack(value) yields a response with status 200
\* whose body is empty when value is absent, the string itself when value is
\* a string, and the JSON serialization of value when value is an object;
\* that response is what the handler awaiting the gate returns.
C20_AckResponseByValue ==
    /\ [][C20_AcceptedAckStep]_vars
    /\ [](\A r \in Reqs :
             (Dispatched(r) /\ pc[r] = "done" /\ responsePromise[r].state = "resolved")
                 => /\ response[r] = responsePromise[r].resp
                    /\ response[r].status = 200)

\* A request answered with the string its event was acknowledged with.
C20_Witness ==
    \E r \in Reqs :
        /\ gate[r] = "Acknowledged"
        /\ pc[r] = "done"
        /\ response[r] = Resp(200, "text", "First", "")

(***************************************************************************)
(* Body decoding                                                           *)
(***************************************************************************)

\* The handler gets to decode the body of the request.
ReachesParsing(req) == req.readOk /\ ~VerificationFails(req)

\* Nothing after the challenge check stops the request: an engine is bound,
\* the extractor and processEvent do not throw.
ReachesEngine(req) == app # "none" /\ ~ExtractorThrows(req) /\ ~req.engineThrows

\* The decoded pairs of a form body.
FormFields(req) == AssignEntries(<< >>, URLSearchParams(req.rawBody))

C21_FormShapeStep ==
    \A r \in Reqs, req \in AllRequests :
        (HandleRequest(r, req) /\ ReachesParsing(req)
           /\ req.contentType = FormContentType /\ pe'[r] = "running")
            => IF "payload" \in DOMAIN FormFields(req)
               THEN /\ JSONParse(FormFields(req)["payload"]).ok
                    /\ event'[r].body = JSONParse(FormFields(req)["payload"]).value
               ELSE event'[r].body = Object(FormFields(req))

\* C21: for a form-encoded body the event body is one of two shapes, never
\* a merge of them: the JSON value parsed from the `payload` field when the
\* field is present (the sibling fields are discarded), and otherwise the
\* flat map of the decoded pairs.
C21_FormBodyHasOneOfTwoShapes == [][C21_FormShapeStep]_vars

\* An interactive payload sent beside a `token` field and handed to the
\* engine: the event body's token is the payload's, the field's is gone.
C21_Witness ==
    \E r \in Reqs :
        /\ pe[r] = "running"
        /\ event[r].body = Object("type" :> "block_actions" @@ "token" :> "t0")

C22_JsonStep ==
    \A r \in Reqs, req \in AllRequests :
        (HandleRequest(r, req) /\ ReachesParsing(req)
           /\ req.contentType = JsonContentType
           /\ JSONParse(req.rawBody).ok /\ JSONParse(req.rawBody).value # JSNull)
            => IF Get(JSONParse(req.rawBody).value, "type") = "url_verification"
               THEN response'[r] = Resp(200, "challenge", Get(JSONParse(req.rawBody).value, "challenge"), "")
               ELSE ReachesEngine(req)
                        => /\ pe'[r] = "running"
                           /\ event'[r].body = JSONParse(req.rawBody).value

\* C22: for a JSON body, the payload handed on (to the challenge check and
\* as the event body) is the value parsed from the raw body.
C22_JsonPayloadIsTheParsedBody == [][C22_JsonStep]_vars

\* A JSON event handed to the engine as parsed.
C22_Witness ==
    \E r \in Reqs :
        /\ pe[r] = "running"
        /\ event[r].body = Object("type" :> "event_callback")
        /\ event[r].retryNum = Num(0)

\* The content-type header indicates form-encoding, with or without
\* parameters.
IndicatesForm(contentType) == contentType \in {FormContentType, FormCharsetContentType}

\* C23: the decoder is chosen by the content-type header: every value that
\* indicates form-encoding, with or without parameters such as a charset,
\* selects URL-decoding (a form body without a `payload` field is handed on
\* as the flat map of its pairs); every other value, and none, selects the
\* JSON parse of the raw body, which is an error only if that parse fails.
C23_DecoderByContentType ==
    [][\A r \in Reqs, req \in AllRequests :
          (HandleRequest(r, req) /\ ReachesParsing(req) /\ ReachesEngine(req))
              => /\ (IndicatesForm(req.contentType) /\ "payload" \notin DOMAIN FormFields(req))
                      => /\ pe'[r] = "running"
                         /\ event'[r].body = Object(FormFields(req))
                 /\ (~IndicatesForm(req.contentType) /\ JSONParse(req.rawBody).ok)
                      => response'[r].status # 400]_vars

C24_ParseFailureStep ==
    \A r \in Reqs, req \in AllRequests :
        (HandleRequest(r, req) /\ ReachesParsing(req)
           /\ \/ req.contentType # FormContentType /\ ~JSONParse(req.rawBody).ok
              \/ /\ req.contentType = FormContentType
                 /\ "payload" \in DOMAIN FormFields(req)
                 /\ ~JSONParse(FormFields(req)["payload"]).ok)
            => /\ pc'[r] = "done"
               /\ response'[r].status = 400
               /\ response'[r].t = "error"
               /\ response'[r].type = "RequestParsingError"
               /\ NotHandedToEngine(r)'

\* The claim as it stands: an empty body is answered 400 whatever its
\* content type.
C24_EmptyBodyAnswered400 ==
    [][\A r \in Reqs, req \in AllRequests :
          (HandleRequest(r, req) /\ ReachesParsing(req) /\ req.rawBody = "")
              => /\ response'[r].status = 400
                 /\ NotHandedToEngine(r)']_vars

\* C24: a body that fails to decode (malformed JSON, malformed JSON in the
\* form `payload` field, an empty body decoded as JSON) is answered 400
\* with the type "RequestParsingError", and app.processEvent is not invoked.
C24_ParseFailureAnswered400 ==
    /\ [][C24_ParseFailureStep]_vars
    /\ [](\A r \in Reqs : response[r].status = 400 => NotHandedToEngine(r))

\* A form request whose payload field is not JSON, answered 400.
C24_Witness ==
    \E r \in Reqs :
        /\ pc[r] = "done"
        /\ response[r] = Resp(400, "error", "Failed to parse body as JSON data for content-type: application/x-www-form-urlencoded. Error: Unexpected token", "RequestParsingError")

(***************************************************************************)
(* The event handed to the engine                                          *)
(***************************************************************************)

\* app.processEvent was called with r's event.
HandedToEngine(r) == pe[r] \in {"running", "threw"}

C25_RetryStep ==
    \A r \in Reqs, req \in AllRequests :
        (HandleRequest(r, req) /\ HandedToEngine(r)')
            => /\ ~req.retryNum.present => event'[r].retryNum = Num(0)
               /\ (req.retryNum.present /\ Number(req.retryNum.v) # NaN)
                      => event'[r].retryNum = Number(req.retryNum.v)
               /\ ~req.retryReason.present => event'[r].retryReason = ""
               /\ req.retryReason.present => event'[r].retryReason = req.retryReason.v

\* C25: the event's retryNum is the number in the x-slack-retry-num header
\* and its retryReason the value of the x-slack-retry-reason header; when a
\* header is absent they are 0 and the empty string.
C25_RetryFieldsFromHeaders == [][C25_RetryStep]_vars

\* A third retry after a timeout, handed to the engine as such.
C25_Witness ==
    \E r \in Reqs :
        /\ pe[r] = "running"
        /\ event[r].retryNum = Num(3)
        /\ event[r].retryReason = "http_timeout"

\* The request gets as far as building its event: it is verified, parsed,
\* not a challenge, and an engine is bound.
ReachesEventConstruction(req) ==
    /\ Parsed(req)
    /\ Get(Payload(req), "type") # "url_verification"
    /\ app # "none"

C26_ExtractorStep ==
    \A r \in Reqs, req \in AllRequests :
        HandleRequest(r, req)
            => /\ (ReachesEventConstruction(req) /\ customPropertiesExtractor)
                      => /\ extractorCalls'[r] = 1
                         /\ req.extractor \in {"p1", "p2"}
                                => /\ HandedToEngine(r)'
                                   /\ event'[r].customProperties = req.extractor
                         /\ req.extractor \in {"throws", "throwsString"}
                                => /\ pc'[r] = "done"
                                   /\ response'[r].status = 500
                                   /\ pe'[r] = "none"
               /\ (ReachesEventConstruction(req) /\ ~customPropertiesExtractor)
                      => /\ extractorCalls'[r] = 0
                         /\ HandedToEngine(r)'
                         /\ event'[r].customProperties = EmptyProperties
               /\ ~ReachesEventConstruction(req) => extractorCalls'[r] = 0

C26_ExtractorNotCalledOtherwise ==
    \A r \in Reqs :
        /\ extractorCalls[r] <= 1
        /\ (response[r].t = "challenge" \/ response[r].status \in {400, 401})
              => extractorCalls[r] = 0

\* C26: the custom properties extractor is called exactly once for a request
\* that reaches event construction and never for a challenge, a request
\* that fails verification or one that does not parse; what it returns is
\* the event's customProperties (the empty map when no extractor is
\* configured); when it throws the request is answered 500 and
\* app.processEvent is not invoked.
C26_ExtractorCalledOnce ==
    /\ [][C26_ExtractorStep]_vars
    /\ []C26_ExtractorNotCalledOtherwise

\* An event handed to the engine with what the extractor returned.
C26_Witness ==
    \E r \in Reqs :
        /\ extractorCalls[r] = 1
        /\ pe[r] = "running"
        /\ event[r].customProperties = "p2"

(***************************************************************************)
(* Failures                                                                *)
(***************************************************************************)

\* The error thrown on r's way through the handler when it is none of the
\* named kinds: the body cannot be read, the parsed body is null, the
\* extractor throws, processEvent throws synchronously.
UnnamedErrorThrown(req, error) ==
    \/ ~req.readOk /\ error = GenericError("Failed to read body")
    \/ /\ ReachesParsing(req) /\ parseRequestBody(req).ok
       /\ Payload(req) = JSNull
       /\ error = TypeError("Cannot read properties of null (reading 'type')")
    \/ /\ ReachesEventConstruction(req) /\ ExtractorThrows(req)
       /\ error = ExtractorError(req)
    \/ /\ ReachesEventConstruction(req) /\ ~ExtractorThrows(req) /\ req.engineThrows
       /\ error = TypeError("processEvent threw")

\* The errors thrown in the model that are none of the named kinds.
UnnamedErrors ==
    { GenericError("Failed to read body"),
      TypeError("Cannot read properties of null (reading 'type')"),
      GenericError("Extractor failed"), ThrownString("extractor failed"),
      TypeError("processEvent threw") }

\* The claim as it stands: the body is always the fixed one.
C27_UnexpectedErrorFixedBody ==
    [][\A r \in Reqs, req \in AllRequests, error \in UnnamedErrors :
          (HandleRequest(r, req) /\ UnnamedErrorThrown(req, error))
              => response'[r] = Resp(500, "error", "Internal server error", "UnexpectedError")]_vars

\* C27: an error of none of the named kinds is answered 500 with a JSON
\* body {error, type}: error is the thrown error's own message, and
\* "Internal server error" when the thrown value has none; type is
\* "UnexpectedError" for a plain Error or a value that is not an object,
\* and the name of the error's class otherwise.
C27_UnexpectedErrorAnswered500 ==
    [][\A r \in Reqs, req \in AllRequests, error \in UnnamedErrors :
          (HandleRequest(r, req) /\ UnnamedErrorThrown(req, error))
              => /\ pc'[r] = "done"
                 /\ response'[r].status = 500
                 /\ response'[r].t = "error"
                 /\ response'[r].v = IF error.cls = "string"
                                     THEN "Internal server error"
                                     ELSE error.message
                 /\ response'[r].type = IF error.cls \in {"Error", "string"}
                                        THEN "UnexpectedError"
                                        ELSE error.cls]_vars

\* The extractor threw an Error: the response carries its message.
C27_Witness ==
    \E r \in Reqs :
        /\ pc[r] = "done"
        /\ extractorCalls[r] = 1
        /\ response[r] = Resp(500, "error", "Extractor failed", "UnexpectedError")

C28_UnboundStep ==
    \A r \in Reqs, req \in AllRequests :
        (HandleRequest(r, req) /\ Parsed(req)
           /\ Get(Payload(req), "type") # "url_verification" /\ app = "none")
            => /\ pc'[r] = "done"
               /\ response'[r] = Resp(500, "error", "App not initialized", "VercelReceiverError")
               /\ NotHandedToEngine(r)'
               /\ extractorCalls'[r] = 0

\* C28: a request that is not a challenge and reaches dispatch while no
\* engine is bound is answered 500 with the type "VercelReceiverError" and
\* the error "App not initialized"; no timer is armed and nothing is
\* dispatched.
C28_UnboundAnswered500 ==
    /\ [][C28_UnboundStep]_vars
    /\ [](\A r \in Reqs : HandedToEngine(r) => engine[r] # "none")

\* A request answered "App not initialized".
C28_Witness ==
    \E r \in Reqs :
        /\ pc[r] = "done"
        /\ response[r] = Resp(500, "error", "App not initialized", "VercelReceiverError")

C29_InitStep ==
    /\ \A a \in Apps : ENABLED ReceiverInit(a)
    /\ \A r \in Reqs, req \in AllRequests :
          (HandleRequest(r, req) /\ HandedToEngine(r)')
              => engine'[r] = lastInit

\* C29: init(engine) can be called any number of times, and an event is
\* dispatched to the engine bound by the latest init() call at the time of
\* the dispatch, whenever the handler serving the request was obtained.
C29_DispatchToLatestEngine ==
    /\ [][C29_InitStep]_vars
    /\ [](app = lastInit)

\* An event dispatched to the second engine, the one bound by the latest
\* init() call.
C29_Witness ==
    \E r \in Reqs :
        /\ pe[r] = "running"
        /\ engine[r] = "app2"
        /\ lastInit = "app2"

C30_FailureStep ==
    \A r \in Reqs, req \in Requests :
        (HandleRequest(r, req)
           /\ (~req.readOk \/ VerificationFails(req) \/ ~parseRequestBody(req).ok))
            => /\ pc'[r] = "done"
               /\ response'[r].t = "error"
               /\ response'[r].status \in {400, 401, 500}

InReceiverHandler(r) ==
    \/ pc[r] \in {"readBody", "awaitGate"}
    \/ pc[r] = "done" /\ response[r] # HandlerErrorResponse

C31_ReadOnce ==
    \A r \in Reqs :
        /\ InReceiverHandler(r) => textCalls[r] = 1
        /\ ~InReceiverHandler(r) => textCalls[r] = 0

C31_SameStringStep ==
    \A r \in Reqs, req \in Requests :
        HandleRequest(r, req)
            => /\ textCalls[r] = 1 /\ textCalls'[r] = 1
               /\ (signatureVerification /\ req.readOk
                     /\ req.timestamp.present /\ req.signature.present)
                      => (response'[r].status = 401
                            <=> req.signature.v # Sign(signingSecret, req.timestamp.v, req.rawBody))
               /\ (ReachesParsing(req) /\ req.contentType # FormContentType)
                      => (response'[r].status = 400 <=> ~JSONParse(req.rawBody).ok)

\* C31: on every path through the receiver's handler the raw body is read
\* exactly once, before verification and parsing, and the string read is
\* the one the signature is verified over and the one the parser decodes.
C31_RawBodyReadOnce == [][C31_SameStringStep]_vars /\ []C31_ReadOnce

\* A request served through createHandler, its body read once, verified,
\* parsed and acknowledged.
C31_Witness ==
    \E r \in Reqs :
        /\ ~direct
        /\ pc[r] = "done" /\ response[r].status = 200
        /\ gate[r] = "Acknowledged"
        /\ textCalls[r] = 1

(***************************************************************************)
(* The retry number                                                        *)
(***************************************************************************)

\* C32: whatever the value of the x-slack-retry-num header, the retryNum of
\* the event handed to the engine is an integer greater than or equal to 0.
C32_RetryNumIsNatural ==
    \A r \in Reqs :
        HandedToEngine(r) => ~event[r].retryNum.nan /\ event[r].retryNum.n >= 0

(***************************************************************************)
(* Status codes                                                            *)
(***************************************************************************)

\* C33: getStatusCode maps each kind of error to its status: the
\* authenticity errors (ReceiverAuthenticityError and
\* SignatureVerificationError) to 401, RequestParsingError to 400, the
\* timeout error to 408, the not-initialized error to 500, and every other
\* error to 500.
C33_StatusByKind ==
    [][\A error \in Errors :
          HandleErrorCalled(error)
              => handled'.status =
                     IF error.cls \in {"ReceiverAuthenticityError", "SignatureVerificationError"}
                     THEN 401
                     ELSE IF error.cls = "RequestParsingError" THEN 400
                     ELSE IF error = TimeoutError THEN 408
                     ELSE 500]_vars

(***************************************************************************)
(* The timer of a request that was not dispatched                          *)
(***************************************************************************)

\* C34: on the paths on which handleSlackEvent arms the deadline timer and
\* leaves without awaiting the response promise (the custom properties
\* extractor throws, app.processEvent throws synchronously), no timer of the
\* request stays armed after the response was returned, and the response
\* promise is never rejected with nobody awaiting it.
C34_NoTimerLeftArmed ==
    \A r \in Reqs :
        (pc[r] = "done" /\ ~Dispatched(r))
            => /\ timer[r].state # "armed"
               /\ responsePromise[r].state # "rejected"

(***************************************************************************)
(* Concurrent requests                                                     *)
(***************************************************************************)

\* What belongs to request q.
OfRequest(q) ==
    <<isAcknowledged[q], timer[q], responsePromise[q], settleCalls[q], gate[q],
      pc[q], pe[q], event[q], waitUntilPromise[q], ackResult[q], response[q]>>

C35_GateStep ==
    \A r \in Reqs :
        (TimerFires(r) \/ \E v \in AckValues : ackFn(r, v))
            => \A q \in Reqs \ {r} : OfRequest(q)' = OfRequest(q)

\* C35: the gates of different requests are independent: an ack call or a
\* deadline firing of one event never settles, cancels or alters the state,
\* the timer or the response of another event.
C35_GatesAreIndependent == [][C35_GateStep]_vars

\* Two requests in flight together: the second was acknowledged and
\* answered while the first, which arrived before it, still waits with its
\* timer armed.
C35_Witness ==
    /\ pc[1] = "awaitGate" /\ gate[1] = "Pending" /\ timer[1].state = "armed"
    /\ pc[2] = "done" /\ gate[2] = "Acknowledged" /\ response[2].status = 200

(***************************************************************************)
(* The order of the checks                                                 *)
(***************************************************************************)

\* The body does not decode under its content type.
DecodeFails(req) ==
    \/ req.contentType # FormContentType /\ ~JSONParse(req.rawBody).ok
    \/ /\ req.contentType = FormContentType
       /\ "payload" \in DOMAIN FormFields(req)
       /\ ~JSONParse(FormFields(req)["payload"]).ok

C36_OrderStep ==
    \A r \in Reqs, req \in AllRequests :
        (HandleRequest(r, req) /\ req.readOk)
            => IF signatureVerification /\ FailsVerification(req)
               THEN response'[r].status = 401
               ELSE IF DecodeFails(req)
               THEN response'[r].status = 400
               ELSE IF Parsed(req) /\ Get(Payload(req), "type") = "url_verification"
               THEN response'[r] = Resp(200, "challenge", Get(Payload(req), "challenge"), "")
               ELSE (Parsed(req) /\ app = "none")
                        => response'[r] = Resp(500, "error", "App not initialized", "VercelReceiverError")

\* C36: when several failure conditions hold for one request the response
\* is decided in a fixed order: verification failure (401) before parse
\* failure (400) before the challenge echo before the engine-not-bound
\* error (500).
C36_ChecksInFixedOrder == [][C36_OrderStep]_vars

\* A challenge echoed by a receiver that verifies signatures and has no
\* engine bound.
C36_Witness ==
    \E r \in Reqs :
        /\ signatureVerification
        /\ app = "none" /\ lastInit = "none"
        /\ pc[r] = "done"
        /\ response[r] = Resp(200, "challenge", "c1", "")

(***************************************************************************)
(* createHandler and the engine's startup                                  *)
(***************************************************************************)

\* An app.init() attempt has resolved.
SomeInitResolved == \E i \in 1..Len(attempts) : attempts[i] = "resolved"

\* C37: through a createHandler handler app.processEvent is never invoked
\* and no acknowledgment gate is armed for any request before an app.init()
\* attempt has resolved (every request here came through createHandler when
\* none was given to the receiver's handler directly).
C37_NoDispatchBeforeInit ==
    ~direct
        => \A r \in Reqs :
               (gate[r] # "Unarmed" \/ timer[r].state # "none" \/ pe[r] # "none"
                  \/ pc[r] \in {"awaitStart", "readBody", "awaitGate"})
                   => SomeInitResolved

\* A request of a createHandler handler handed to the engine after the
\* first attempt resolved.
C37_Witness ==
    \E r \in Reqs :
        /\ ~direct
        /\ attempts # << >> /\ attempts[1] = "resolved"
        /\ pe[r] = "running" /\ gate[r] = "Pending"

(***************************************************************************)
(* Dispatch and waitUntil                                                  *)
(***************************************************************************)

\* r was answered without app.processEvent being reached: a challenge, a
\* 400, a 401, or a 500 of createHandler, of the body read, of the app
\* check or of the extractor.
AnsweredBeforeDispatch(r) ==
    /\ pc[r] = "done"
    /\ \/ response[r].t = "challenge"
       \/ response[r].status \in {400, 401}
       \/ response[r] \in
              { HandlerErrorResponse,
                Resp(500, "error", "Failed to read body", "UnexpectedError"),
                Resp(500, "error", "App not initialized", "VercelReceiverError"),
                Resp(500, "error", "Extractor failed", "UnexpectedError") }

C38_DispatchStep ==
    \A r \in Reqs :
        /\ pe'[r] # pe[r]
              => \/ pe[r] = "none" /\ pe'[r] \in {"running", "threw"}
                 \/ pe[r] = "running" /\ pe'[r] \in {"resolved", "rejected"}
        /\ waitUntilPromise'[r] # waitUntilPromise[r]
              => \/ waitUntilPromise[r] = "none" /\ pe[r] = "none" /\ pe'[r] = "running"
                 \/ waitUntilPromise[r] = "pending" /\ waitUntilPromise'[r] = "resolved"

C38_RegisteredWhenDispatched ==
    \A r \in Reqs :
        /\ Dispatched(r) <=> waitUntilPromise[r] # "none"
        /\ pe[r] = "threw" => waitUntilPromise[r] = "none"
        /\ AnsweredBeforeDispatch(r) => pe[r] = "none" /\ waitUntilPromise[r] = "none"

C39_NonObjectBodyNever5xx ==
    [][\A r \in Reqs, req \in AllRequests :
          (HandleRequest(r, req) /\ ReachesParsing(req) /\ ReachesEngine(req)
             /\ req.contentType # FormContentType
             /\ JSONParse(req.rawBody).ok
             /\ JSONParse(req.rawBody).value.t # "object")
              => \/ response'[r].status = 400
                 \/ /\ pe'[r] = "running"
                    /\ event'[r].body = JSONParse(req.rawBody).value]_vars

====
